---- MODULE Spec2Model ----
(***************************************************************************)
(* Smart Energy Marketplace: the settlement engine (accept_offer), the     *)
(* offer book (create_offer), accounts (create_user, fund_user, provider   *)
(* seeding), the trade-confirm endpoint and the lazily initialised surge   *)
(* window of the pricing oracle.                                           *)
(*                                                                         *)
(* Numbers.  Every stored quantity (balance_eur, kwh_total, kwh_remaining, *)
(* price_eur_per_kwh, total_eur, Trade.kwh) is a float the code rounds to  *)
(* 4 decimals before it stores it: the model holds it as an integer count  *)
(* of "ticks" of 0.0001.  A raw request argument (kwh, price, amount) is a *)
(* float the caller chooses: the model holds it as an integer count of     *)
(* "units" of 0.00001, one decimal finer than what round(x, 4) keeps, so   *)
(* that rounding is something a check can observe.  The tolerance 1e-9 of  *)
(* the code is far below one unit, so `a > b + 1e-9` is `a > b` here.      *)
(*                                                                         *)
(* Requests.  Sync FastAPI endpoints run on a thread pool, each with its   *)
(* own Session.  accept_offer reads its rows with db.get (plain SELECTs,   *)
(* no FOR UPDATE) and writes them back when `with db.begin()` exits; the   *)
(* model takes every SELECT and the final flush+COMMIT as one atomic step  *)
(* each and lets the steps of different requests interleave.  fund_user    *)
(* is a SELECT and a COMMIT in the same way.  A SELECT sees the rows as    *)
(* last committed and a COMMIT succeeds: the engine's default isolation    *)
(* (the code asks for no other).                                           *)
(***************************************************************************)
EXTENDS Integers, Sequences, FiniteSets, TLC

VARIABLES
    users,      \* table users:  Seq of [email, role, balance_eur]; id = index
    offers,     \* table offers: Seq of [seller_id, kwh_total, kwh_remaining,
                \*               price_eur_per_kwh, status, created_ts]; id = index
    trades,     \* table trades: Seq of [offer_id, buyer_id, kwh, total_eur, ts, tx_hash]
    calls,      \* in-flight and finished accept_offer requests, by request id
    clock,      \* int(time.time())
    funds,      \* number of fund_user requests that read their user row
    funding,    \* the fund_user request between its SELECT and its COMMIT
    settings,   \* app.config.settings of the process: the surge configuration
    SURGE,      \* the module global _SURGE: NoSurge or [hour, multiplier]
    surgeWrites,\* how many times a SurgeWindow has been assigned to _SURGE
    threads,    \* threads inside provider_multiplier_now, by thread id
    usedHours,  \* the surge hours that price computations of this process compared with
    samples,    \* table meter_samples: Seq of [user_id, production_kwh, consumption_kwh, ts]
    answer      \* what the last read request returned: [op, user_id, arg, items, value]

vars == <<users, offers, trades, calls, clock, funds, funding,
          settings, SURGE, surgeWrites, threads, usedHours, samples, answer>>
store == <<users, offers, trades>>
pricing == <<settings, SURGE, surgeWrites, threads, usedHours>>
views == <<samples, answer>>

----------------------------------------------------------------------------
(* Bounds of the model. *)
MaxUsers == 4      \* rows of table users
MaxOffers == 2     \* rows of table offers
MaxCalls == 2      \* accept_offer requests of a run
MaxFunds == 1      \* successful fund_user calls of a run
MaxThreads == 2    \* threads that call provider_multiplier_now
MaxSamples == 2    \* rows of table meter_samples
MaxTicks == 1      \* hours that pass while samples and offers are recorded

(* Program constants (app.config.settings). *)
PLATFORM_FEE_RATE_PCT == 10

----------------------------------------------------------------------------
(* round(): Python rounds half to even. RoundDiv(n, d) is n/d rounded to an integer. *)
RoundDiv(n, d) ==
    LET q == n \div d
        r == n % d
    IN  IF 2 * r < d THEN q
        ELSE IF 2 * r > d THEN q + 1
        ELSE IF q % 2 = 0 THEN q ELSE q + 1

(* round(x, 4) of a raw value x given in units: the result in ticks. *)
Round4(x) == RoundDiv(x, 10)

(* A stored value (ticks) as a raw value (units). *)
Units(t) == 10 * t

----------------------------------------------------------------------------
(* app.models: UserRole, OfferStatus; app.config.settings.PROVIDER_NAMES. *)
Roles == {"consumer", "producer", "both", "provider"}
PROVIDER_NAMES == <<"DEH", "HERON">>
NoHash == "none"

(* What the callers of the model send. Raw values are in units of 0.00001. *)
RegisterRoles == {"consumer", "producer"}
KwhInputs == {0, 4, 500000, 999996}        \* accept: 0, 0.00004, 5 and 9.99996 kWh
OfferKwhInputs == {0, 4, 1000000, 1000004} \* create_offer: 0, 0.00004, 10 and 10.00004 kWh
PriceInputs == {0, 20000, 20004}           \* 0, 0.20 and 0.20004 EUR/kWh
AmountInputs == {0, 300000}                \* 0 and 3.00 EUR
FundAmountInputs == {0, 300000, 300004}    \* 0, 3.00 and 3.00004 EUR
HashInputs == {NoHash}                     \* REQUIRE_TX_HASH_ON_ACCEPT is off
ConfirmHashes == {"0xa"}
UserIds == 2..MaxUsers                     \* the two seeded providers are alike: requests name the second
OfferIds == 1..MaxOffers
CallIds == 1..MaxCalls
TradeIds == 1..MaxCalls

Exists(table, id) == id \in 1..Len(table)

(* A read request's response: the operation, its user_id and its limit or hours   *)
(* (arg), and the items of a listing or the value of a surplus.                   *)
NoAnswer == [op |-> "none", user_id |-> 0, arg |-> 0, items |-> <<>>, value |-> 0]

Range(f) == {f[i] : i \in DOMAIN f}

----------------------------------------------------------------------------
(* seed_providers_if_missing: one user per configured name that no provider row has. *)
(* Mutant of MissingProviders: the existing provider rows are not looked at. *)
MissingProvidersAll == PROVIDER_NAMES

MissingProviders ==
    LET existing == {users[i].email : i \in {j \in 1..Len(users) : users[j].role = "provider"}}
    IN  SelectSeq(PROVIDER_NAMES, LAMBDA n : n \notin existing)

ProviderRow(name) == [email |-> name, role |-> "provider", balance_eur |-> 0]

SeededUsers(table, missing) ==
    table \o [i \in 1..Len(missing) |-> ProviderRow(missing[i])]

SeedProviders ==
    /\ Len(users) + Len(MissingProviders) <= MaxUsers
    /\ users' = SeededUsers(users, MissingProviders)
    /\ UNCHANGED <<offers, trades, calls, clock, funds, funding, pricing, views>>

(* create_user: a new row with balance 0. *)
CreateUser(email, role) ==
    /\ Len(users) < MaxUsers
    /\ users' = Append(users, [email |-> email, role |-> role, balance_eur |-> 0])
    /\ UNCHANGED <<offers, trades, calls, clock, funds, funding, pricing, views>>

(* The flush of a session: the unit of work UPDATEs the columns whose value     *)
(* differs from the value loaded, and only those.                               *)
Flushed(current, loaded, new) == IF new = loaded THEN current ELSE new

(* Mutant of FundedBalance: the amount is added twice. *)
FundedBalanceTwice(balance, amount) == Round4(Units(balance) + 2 * amount)

(* fund_user: balance_eur = round(balance_eur + amount, 4). *)
FundedBalance(balance, amount) == Round4(Units(balance) + amount)

IdleFund == [pc |-> "idle", user_id |-> 0, amount |-> 0, balance_eur |-> 0]

(* The amount check and db.get(User, user_id): a plain SELECT. *)
FundGetUser(user_id, amount) ==
    /\ funding.pc = "idle"
    /\ funds < MaxFunds
    /\ IF amount <= 0 \/ ~Exists(users, user_id)
       THEN UNCHANGED <<funding, funds>>
       ELSE /\ funding' = [pc |-> "commit", user_id |-> user_id, amount |-> amount,
                           balance_eur |-> users[user_id].balance_eur]
            /\ funds' = funds + 1
    /\ UNCHANGED <<store, calls, clock, pricing, views>>

(* The assignment and db.commit(): the UPDATE writes the balance computed from *)
(* the row as this request loaded it.                                          *)
FundCommit ==
    /\ funding.pc = "commit"
    /\ users' = [users EXCEPT ![funding.user_id].balance_eur =
                    Flushed(@, funding.balance_eur,
                            FundedBalance(funding.balance_eur, funding.amount))]
    /\ funding' = IdleFund
    /\ UNCHANGED <<offers, trades, calls, clock, funds, pricing, views>>

(* fund_user served with no other request in between, as one step, and what it   *)
(* answers: the balance read back after the commit, or the ValueError's message. *)
FundError(user_id, amount) ==
    IF amount <= 0 THEN "Amount must be positive"
    ELSE IF ~Exists(users, user_id) THEN "User not found"
    ELSE "ok"

FundUser(user_id, amount) ==
    /\ funding.pc = "idle"
    /\ funds < MaxFunds
    /\ IF FundError(user_id, amount) # "ok"
       THEN /\ answer' = [NoAnswer EXCEPT !.op = FundError(user_id, amount),
                                          !.user_id = user_id, !.arg = amount]
            /\ UNCHANGED <<users, funds>>
       ELSE /\ users' = [users EXCEPT ![user_id].balance_eur =
                            Flushed(@, @, FundedBalance(@, amount))]
            /\ funds' = funds + 1
            /\ answer' = [NoAnswer EXCEPT !.op = "fund", !.user_id = user_id, !.arg = amount,
                                          !.value = users'[user_id].balance_eur]
    /\ UNCHANGED <<offers, trades, calls, clock, funding, pricing, samples>>

(* create_offer: validation, then one active row with rounded quantity and price. *)
(* Mutant of CreateOfferError: the seller's role is not checked. *)
CreateOfferErrorAnyRole(seller_id, kwh, price) ==
    IF ~Exists(users, seller_id) THEN "Seller not found"
    ELSE IF kwh <= 0 \/ price <= 0 THEN "kWh and price must be positive"
    ELSE "ok"

CreateOfferError(seller_id, kwh, price) ==
    IF ~Exists(users, seller_id) THEN "Seller not found"
    ELSE IF users[seller_id].role \notin {"producer", "both"}
         THEN "Only producers or both can create offers"
    ELSE IF kwh <= 0 \/ price <= 0 THEN "kWh and price must be positive"
    ELSE "ok"

NewOffer(seller_id, kwh, price, now) ==
    [seller_id |-> seller_id,
     kwh_total |-> Round4(kwh),
     kwh_remaining |-> Round4(kwh),
     price_eur_per_kwh |-> Round4(price),
     status |-> "active",
     created_ts |-> now]

CreateOffer(seller_id, kwh, price) ==
    /\ Len(offers) < MaxOffers
    /\ IF CreateOfferError(seller_id, kwh, price) = "ok"
       THEN offers' = Append(offers, NewOffer(seller_id, kwh, price, clock))
       ELSE UNCHANGED offers
    /\ UNCHANGED <<users, trades, calls, clock, funds, funding, pricing, views>>

----------------------------------------------------------------------------
(* accept_offer.  A request r is a record: its arguments, its position pc,  *)
(* the rows its Session has loaded (offer, buyer_bal, seller_bal) and its   *)
(* result ("" while it runs, "ok", or the message of the ValueError).       *)
NoRow == [seller_id |-> 0, kwh_total |-> 0, kwh_remaining |-> 0,
          price_eur_per_kwh |-> 0, status |-> "none", created_ts |-> 0]

IdleCall == [pc |-> "idle", buyer_id |-> 0, offer_id |-> 0, kwh |-> 0, tx_hash |-> NoHash,
             now |-> 0, offer |-> NoRow, buyer_bal |-> 0, seller_bal |-> 0, result |-> ""]

(* A finished request keeps its arguments and its result; its Session is closed. *)
Finished(r, result) ==
    [IdleCall EXCEPT !.pc = "done", !.buyer_id = r.buyer_id, !.offer_id = r.offer_id,
                     !.kwh = r.kwh, !.tx_hash = r.tx_hash, !.result = result]

Failed(r, msg) == Finished(r, msg)

(* total = round(kwh * price, 4); fee = round(total * rate, 4); net = round(total - fee, 4). *)
Total(kwh, price) == RoundDiv(kwh * price, 100000)
Fee(total) == RoundDiv(total * PLATFORM_FEE_RATE_PCT, 100)
Net(total) == Round4(Units(total - Fee(total)))

(* offer = db.get(Offer, offer_id) and the checks on the row, in a store whose     *)
(* offers table is offs.                                                           *)
OfferError(offs, r) ==
    IF ~Exists(offs, r.offer_id) THEN "Offer not found"
    ELSE IF offs[r.offer_id].status # "active" \/ offs[r.offer_id].kwh_remaining <= 0
         THEN "Offer not available"
    ELSE IF r.kwh > Units(offs[r.offer_id].kwh_remaining)
         THEN "Requested kWh exceeds remaining"
    ELSE "ok"

(* Mutant of Started: the offer is looked up before kwh is checked. *)
StartedOfferFirst(offs, now, r) ==
    IF OfferError(offs, r) # "ok" THEN Failed(r, OfferError(offs, r))
    ELSE IF r.kwh <= 0 THEN Failed(r, "kWh must be positive")
    ELSE [r EXCEPT !.pc = "buyer", !.now = now, !.offer = offs[r.offer_id]]

(* `if kwh <= 0: raise`, now = int(time.time()), the transaction begins, and        *)
(* offer = db.get(Offer, offer_id) with its checks. Nothing before the SELECT       *)
(* touches shared state, so the request's first step runs up to and including it.   *)
Started(offs, now, r) ==
    IF r.kwh <= 0 THEN Failed(r, "kWh must be positive")
    ELSE IF OfferError(offs, r) # "ok" THEN Failed(r, OfferError(offs, r))
    ELSE [r EXCEPT !.pc = "buyer", !.now = now, !.offer = offs[r.offer_id]]

NewCall(buyer_id, offer_id, kwh, tx_hash) ==
    [IdleCall EXCEPT !.buyer_id = buyer_id, !.offer_id = offer_id,
                     !.kwh = kwh, !.tx_hash = tx_hash]

(* Request ids are handed out in order. *)
AcceptGetOffer(c, buyer_id, offer_id, kwh, tx_hash) ==
    /\ calls[c].pc = "idle"
    /\ \A d \in CallIds : d < c => calls[d].pc # "idle"
    /\ calls' = [calls EXCEPT ![c] = Started(offers, clock, NewCall(buyer_id, offer_id, kwh, tx_hash))]
    /\ UNCHANGED <<users, offers, trades, clock, funds, funding, pricing, views>>

(* buyer = db.get(User, buyer_id). *)
BuyerLoaded(usrs, r) ==
    IF Exists(usrs, r.buyer_id)
    THEN [r EXCEPT !.pc = "seller", !.buyer_bal = usrs[r.buyer_id].balance_eur]
    ELSE Failed(r, "Buyer not found")

AcceptGetBuyer(c) ==
    /\ calls[c].pc = "buyer"
    /\ calls' = [calls EXCEPT ![c] = BuyerLoaded(users, calls[c])]
    /\ UNCHANGED <<users, offers, trades, clock, funds, funding, pricing, views>>

(* seller = db.get(User, offer.seller_id): the Session's identity map returns the   *)
(* buyer object, without a SELECT, when the seller is the buyer. Then the balance   *)
(* check on the buyer row as loaded.                                                *)
LoadedSellerBalance(usrs, r) ==
    IF r.offer.seller_id = r.buyer_id THEN r.buyer_bal
    ELSE usrs[r.offer.seller_id].balance_eur

(* Mutant of SellerError: the balance check is left out. *)
SellerErrorUnchecked(usrs, r) ==
    IF ~Exists(usrs, r.offer.seller_id) THEN "Seller not found" ELSE "ok"

SellerError(usrs, r) ==
    IF ~Exists(usrs, r.offer.seller_id) THEN "Seller not found"
    ELSE IF r.buyer_bal < Total(r.kwh, r.offer.price_eur_per_kwh)
         THEN "Insufficient buyer balance"
    ELSE "ok"

SellerLoaded(usrs, r) ==
    IF SellerError(usrs, r) = "ok"
    THEN [r EXCEPT !.pc = "commit", !.seller_bal = LoadedSellerBalance(usrs, r)]
    ELSE Failed(r, SellerError(usrs, r))

(* Mutant of AcceptGetSeller: the buyer is debited before the balance check. *)
AcceptGetSellerDebitsFirst(c) ==
    /\ calls[c].pc = "seller"
    /\ calls' = [calls EXCEPT ![c] = SellerLoaded(users, calls[c])]
    /\ users' = [users EXCEPT ![calls[c].buyer_id].balance_eur =
                    @ - Total(calls[c].kwh, calls[c].offer.price_eur_per_kwh)]
    /\ UNCHANGED <<offers, trades, clock, funds, funding, pricing, views>>

AcceptGetSeller(c) ==
    /\ calls[c].pc = "seller"
    /\ calls' = [calls EXCEPT ![c] = SellerLoaded(users, calls[c])]
    /\ UNCHANGED <<users, offers, trades, clock, funds, funding, pricing, views>>

(* The attribute values the request holds when the `with` block ends. *)
NewBuyerBalance(r) == Round4(Units(r.buyer_bal - Total(r.kwh, r.offer.price_eur_per_kwh)))

(* Mutant of NewSellerBalance: the seller is credited total, the fee is not taken. *)
NewSellerBalanceGross(r) ==
    LET total == Total(r.kwh, r.offer.price_eur_per_kwh)
    IN  IF r.offer.seller_id = r.buyer_id
        THEN Round4(Units(NewBuyerBalance(r) + total))
        ELSE Round4(Units(r.seller_bal + total))

NewSellerBalance(r) ==
    LET net == Net(Total(r.kwh, r.offer.price_eur_per_kwh))
    IN  IF r.offer.seller_id = r.buyer_id
        THEN Round4(Units(NewBuyerBalance(r) + net))
        ELSE Round4(Units(r.seller_bal + net))

(* Mutant of NewRem: the difference is truncated to 4 decimals, not rounded. *)
NewRemTruncated(r) == (Units(r.offer.kwh_remaining) - r.kwh) \div 10

NewRem(r) == Round4(Units(r.offer.kwh_remaining) - r.kwh)

NewOfferRemaining(r) == IF NewRem(r) <= 0 THEN 0 ELSE NewRem(r)

(* Mutant of NewOfferStatus: a depleted offer is not closed. *)
NewOfferStatusKept(r) == r.offer.status

NewOfferStatus(r) == IF NewRem(r) <= 0 THEN "closed" ELSE r.offer.status

NewTrade(r) ==
    [offer_id |-> r.offer_id, buyer_id |-> r.buyer_id, kwh |-> Round4(r.kwh),
     total_eur |-> Total(r.kwh, r.offer.price_eur_per_kwh), ts |-> r.now,
     tx_hash |-> r.tx_hash]

UsersAfterCommit(usrs, r) ==
    IF r.offer.seller_id = r.buyer_id
    THEN [usrs EXCEPT ![r.buyer_id].balance_eur = Flushed(@, r.buyer_bal, NewSellerBalance(r))]
    ELSE [usrs EXCEPT
            ![r.buyer_id].balance_eur = Flushed(@, r.buyer_bal, NewBuyerBalance(r)),
            ![r.offer.seller_id].balance_eur = Flushed(@, r.seller_bal, NewSellerBalance(r))]

(* Mutant of OffersAfterCommit: the offer's kwh_total follows its remaining. *)
OffersAfterCommitShrinksTotal(offs, r) ==
    [offs EXCEPT
        ![r.offer_id].kwh_remaining = Flushed(@, r.offer.kwh_remaining, NewOfferRemaining(r)),
        ![r.offer_id].kwh_total = NewOfferRemaining(r),
        ![r.offer_id].status = Flushed(@, r.offer.status, NewOfferStatus(r))]

OffersAfterCommit(offs, r) ==
    [offs EXCEPT
        ![r.offer_id].kwh_remaining = Flushed(@, r.offer.kwh_remaining, NewOfferRemaining(r)),
        ![r.offer_id].status = Flushed(@, r.offer.status, NewOfferStatus(r))]

AcceptCommit(c) ==
    /\ calls[c].pc = "commit"
    /\ users' = UsersAfterCommit(users, calls[c])
    /\ offers' = OffersAfterCommit(offers, calls[c])
    /\ trades' = Append(trades, NewTrade(calls[c]))
    /\ calls' = [calls EXCEPT ![c] = Finished(@, "ok")]
    /\ UNCHANGED <<clock, funds, funding, pricing, views>>

(* accept_offer run from its first line to its last on a store st = [users,       *)
(* offers, trades] with no other request in between: the store it leaves and its  *)
(* result.                                                                        *)
AcceptAlone(st, now, r) ==
    LET r1 == Started(st.offers, now, r)
        r2 == BuyerLoaded(st.users, r1)
        r3 == SellerLoaded(st.users, r2)
    IN  IF r1.pc = "done" THEN [store |-> st, result |-> r1.result]
        ELSE IF r2.pc = "done" THEN [store |-> st, result |-> r2.result]
        ELSE IF r3.pc = "done" THEN [store |-> st, result |-> r3.result]
        ELSE [store |-> [users |-> UsersAfterCommit(st.users, r3),
                         offers |-> OffersAfterCommit(st.offers, r3),
                         trades |-> Append(st.trades, NewTrade(r3))],
              result |-> "ok"]

(* Mutant of ChainTradeConfirm: an unknown trade id creates a trade. *)
ChainTradeConfirmUpsert(trade_id, tx_hash) ==
    /\ IF Exists(trades, trade_id)
       THEN trades' = [trades EXCEPT ![trade_id].tx_hash = tx_hash]
       ELSE trades' = Append(trades, [offer_id |-> 0, buyer_id |-> 0, kwh |-> 0,
                                      total_eur |-> 0, ts |-> clock, tx_hash |-> tx_hash])
    /\ UNCHANGED <<users, offers, calls, clock, funds, funding, pricing, views>>

(* POST /chain/trade-confirm: sets tx_hash of an existing trade. *)
ChainTradeConfirm(trade_id, tx_hash) ==
    /\ IF Exists(trades, trade_id)
       THEN trades' = [trades EXCEPT ![trade_id].tx_hash = tx_hash]
       ELSE UNCHANGED trades
    /\ UNCHANGED <<users, offers, calls, clock, funds, funding, pricing, views>>

(* accept_offer served with no other request in between, as one step. A request   *)
(* that fails leaves the store as it was.                                         *)
AcceptOffer(buyer_id, offer_id, kwh, tx_hash) ==
    /\ Len(trades) < MaxCalls
    /\ LET done == AcceptAlone([users |-> users, offers |-> offers, trades |-> trades],
                               clock, NewCall(buyer_id, offer_id, kwh, tx_hash))
       IN  /\ users' = done.store.users
           /\ offers' = done.store.offers
           /\ trades' = done.store.trades
    /\ UNCHANGED <<calls, clock, funds, funding, pricing, views>>

----------------------------------------------------------------------------
(* Meter samples.  POST /meter_sample hands payload.ts to record_meter_sample as  *)
(* it came, None when the caller left it out: NoTs.  Production and consumption   *)
(* are stored as given, in units.                                                 *)
NoTs == -1

NewSample(user_id, prod_kwh, cons_kwh, ts) ==
    [user_id |-> user_id, production_kwh |-> prod_kwh, consumption_kwh |-> cons_kwh, ts |-> ts]

RecordError(user_id, prod_kwh, cons_kwh) ==
    IF prod_kwh < 0 \/ cons_kwh < 0 THEN "Energy values must be non-negative"
    ELSE IF ~Exists(users, user_id) THEN "User not found"
    ELSE "ok"

(* record_meter_sample.  With ts = None the row goes to the INSERT with ts NULL:  *)
(* the column either takes it or, declared NOT NULL, makes the commit fail; the   *)
(* table definition decides, and the step allows both.                            *)
RecordMeterSample(user_id, prod_kwh, cons_kwh, ts) ==
    /\ Len(samples) < MaxSamples
    /\ IF RecordError(user_id, prod_kwh, cons_kwh) # "ok"
       THEN UNCHANGED samples
       ELSE \/ samples' = Append(samples, NewSample(user_id, prod_kwh, cons_kwh, ts))
            \/ ts = NoTs /\ UNCHANGED samples
    /\ UNCHANGED <<store, calls, clock, funds, funding, pricing, answer>>

(* What the meters send: -0.1, 0.2 and 0.50004 kWh produced, -0.1 and 0.3 kWh      *)
(* consumed, a timestamp on an hour boundary or none.                              *)
ProdInputs == {-10000, 20000, 50004}
ConsInputs == {-10000, 30000}
TsInputs == {NoTs, 0, 3600, 7200}

WindowHoursInputs == {-1, 0, 1}

(* list_meter_series: the user's rows with ts >= since_ts; a row whose ts is NULL  *)
(* satisfies no comparison.  ORDER BY ts permutes the rows, which the sum that     *)
(* follows does not see: the rows are kept in table order.                         *)
ListMeterSeries(smpls, user_id, since_ts) ==
    SelectSeq(smpls, LAMBDA row : row.user_id = user_id /\ row.ts # NoTs /\ row.ts >= since_ts)

(* Mutant of SampleSurplus: a sample that consumed more than it produced counts    *)
(* negative.                                                                       *)
SampleSurplusSigned(row) == row.production_kwh - row.consumption_kwh

(* max(0.0, prod - cons) *)
SampleSurplus(row) ==
    IF row.production_kwh - row.consumption_kwh > 0
    THEN row.production_kwh - row.consumption_kwh ELSE 0

RECURSIVE SumSurplus(_)
SumSurplus(rows) ==
    IF rows = <<>> THEN 0 ELSE SampleSurplus(Head(rows)) + SumSurplus(Tail(rows))

(* compute_surplus_last_hours at time now: round(total, 4), in ticks. *)
ComputeSurplusLastHours(smpls, user_id, hours, now) ==
    Round4(SumSurplus(ListMeterSeries(smpls, user_id, now - hours * 3600)))

ComputeSurplus(user_id, hours) ==
    /\ answer' = [NoAnswer EXCEPT !.op = "surplus", !.user_id = user_id, !.arg = hours,
                      !.value = ComputeSurplusLastHours(samples, user_id, hours, clock)]
    /\ UNCHANGED <<store, calls, clock, funds, funding, pricing, samples>>

(* int(time.time()) an hour later. *)
Tick ==
    /\ clock < MaxTicks * 3600
    /\ clock' = clock + 3600
    /\ UNCHANGED <<store, calls, funds, funding, pricing, views>>

----------------------------------------------------------------------------
(* The pricing oracle's surge window.  settings holds PROVIDER_SURGE_ENABLED,      *)
(* PROVIDER_SURGE_ALLOWED_HOURS (an inclusive range) and PROVIDER_SURGE_MULTIPLIER *)
(* (in percent).  A thread is a record: pc, the local hour of its ts argument, the *)
(* hour random.choice gave it, and the multiplier (percent) it last returned.      *)
NoSurge == [hour |-> -1, multiplier |-> 0]

(* PROVIDER_PRICE_SCHEDULE: [start, end) -> multiplier in percent; the first match wins. *)
PROVIDER_PRICE_SCHEDULE == <<<<0, 7, 80>>, <<17, 22, 150>>>>

(* Schedules a deployment may configure: none, the one above, and one whose        *)
(* intervals overlap.                                                              *)
ScheduleInputs == {<<>>, PROVIDER_PRICE_SCHEDULE, <<<<17, 22, 150>>, <<16, 24, 120>>>>}

SettingsInputs ==
    [surge_enabled : BOOLEAN, allowed_hours : {<<17, 18>>, <<18, 17>>}, surge_multiplier : {250},
     schedule : ScheduleInputs, virtual_pricing : {TRUE}]

DefaultSettings == [surge_enabled |-> TRUE, allowed_hours |-> <<17, 18>>, surge_multiplier |-> 250,
                    schedule |-> PROVIDER_PRICE_SCHEDULE, virtual_pricing |-> TRUE]

HourInputs == {0, 7, 16, 17, 18, 23}
ThreadIds == 1..MaxThreads

(* A thread inside provider_series_past_hours(hours) also holds the time it read   *)
(* (now), the number of points it still has to price (left) and the points it has  *)
(* (out); out stays with the thread when the call has returned.                    *)
IdleThread == [pc |-> "idle", hour |-> 0, chosen |-> 0, m |-> 0,
               hours |-> 0, now |-> 0, left |-> 0, out |-> <<>>]

(* settings.PROVIDER_BASE_PRICE_EUR_PER_KWH, in ticks: 0.20 EUR/kWh. *)
PROVIDER_BASE_PRICE == 2000

(* current_hour_24(ts): the hour of the day of ts (the process runs in UTC). *)
HourOf(ts) == (ts \div 3600) % 24

(* provider_price_eur_per_kwh_now: round(base * mult, 4). *)
ProviderPrice(m) == RoundDiv(PROVIDER_BASE_PRICE * m, 100)

(* provider_series_past_hours: hour_start = now - (now % 3600), and the ts of the   *)
(* point the loop is at, i = left - 1.                                              *)
HourStart(now) == now - (now % 3600)

PointTs(th) == HourStart(th.now) - (th.left - 1) * 3600

(* m = 1.0, then the loop over settings.PROVIDER_PRICE_SCHEDULE up to its break. *)
ScheduleMultiplier(hour) ==
    LET hits == {i \in 1..Len(settings.schedule) :
                    settings.schedule[i][1] <= hour /\ hour < settings.schedule[i][2]}
    IN  IF hits = {} THEN 100
        ELSE settings.schedule[CHOOSE i \in hits : \A j \in hits : i <= j][3]

(* allowed_hours = list(range(start_allowed, end_allowed + 1)) *)
AllowedHours(s) == s.allowed_hours[1]..s.allowed_hours[2]

(* provider_multiplier_now(ts) is entered: hour = current_hour_24(ts). *)
MultiplierCall(t, hour) ==
    /\ threads[t].pc = "idle"
    /\ threads' = [threads EXCEPT ![t] = [IdleThread EXCEPT !.pc = "init", !.hour = hour]]
    /\ UNCHANGED <<store, calls, clock, funds, funding, settings, SURGE, surgeWrites, usedHours, views>>

(* _init_surge_once up to random.choice: the test of the global, the two early     *)
(* returns (which store None again) and the choice, which is local.                *)
InitSurgeCheck(t) ==
    /\ threads[t].pc = "init"
    /\ IF SURGE # NoSurge \/ ~settings.surge_enabled \/ AllowedHours(settings) = {}
       THEN threads' = [threads EXCEPT ![t].pc = "use"]
       ELSE \E chosen \in AllowedHours(settings) :
                threads' = [threads EXCEPT ![t].pc = "assign", ![t].chosen = chosen]
    /\ UNCHANGED <<store, calls, clock, funds, funding, settings, SURGE, surgeWrites, usedHours, views>>

(* _SURGE = SurgeWindow(hour=chosen, multiplier=...) *)
InitSurgeAssign(t) ==
    /\ threads[t].pc = "assign"
    /\ SURGE' = [hour |-> threads[t].chosen, multiplier |-> settings.surge_multiplier]
    /\ surgeWrites' = surgeWrites + 1
    /\ threads' = [threads EXCEPT ![t].pc = "use"]
    /\ UNCHANGED <<store, calls, clock, funds, funding, settings, usedHours, views>>

(* The rest of provider_multiplier_now: the schedule, then                         *)
(* `if _SURGE and _SURGE.hour == hour: m = _SURGE.multiplier`. Once set the global  *)
(* is never None again and every window has the same multiplier, so the loads of   *)
(* the global in this statement act as one.                                        *)
(* Mutant of MultiplierNow: the surge multiplies the schedule's multiplier. *)
MultiplierNowCompounded(hour, surge) ==
    IF surge # NoSurge /\ surge.hour = hour THEN (surge.multiplier * ScheduleMultiplier(hour)) \div 100
    ELSE ScheduleMultiplier(hour)

MultiplierNow(hour, surge) ==
    IF surge # NoSurge /\ surge.hour = hour THEN surge.multiplier
    ELSE ScheduleMultiplier(hour)

(* The thread after provider_multiplier_now returned m: a plain call is over; in   *)
(* the loop of provider_series_past_hours the point is appended and the loop goes  *)
(* on with the next ts, or returns.                                                *)
Returned(th, m) ==
    IF th.left = 0 THEN [IdleThread EXCEPT !.m = m]
    ELSE LET out == Append(th.out, <<PointTs(th), ProviderPrice(m)>>)
         IN  IF th.left = 1
             THEN [IdleThread EXCEPT !.m = m, !.hours = th.hours, !.now = th.now, !.out = out]
             ELSE [th EXCEPT !.pc = "init", !.m = m, !.left = th.left - 1, !.out = out,
                             !.hour = HourOf(PointTs(th) + 3600)]

MultiplierReturn(t) ==
    /\ threads[t].pc = "use"
    /\ threads' = [threads EXCEPT ![t] = Returned(threads[t], MultiplierNow(threads[t].hour, SURGE))]
    /\ usedHours' = IF SURGE = NoSurge THEN usedHours ELSE usedHours \cup {SURGE.hour}
    /\ UNCHANGED <<store, calls, clock, funds, funding, settings, SURGE, surgeWrites, views>>

(* provider_series_past_hours(hours) is entered: now = int(time.time()), and the   *)
(* loop calls provider_price_eur_per_kwh_now(ts) for its first ts.                 *)
SeriesCall(t, hours, now) ==
    /\ threads[t].pc = "idle"
    /\ threads' = [threads EXCEPT ![t] =
            IF hours <= 0 THEN [IdleThread EXCEPT !.hours = hours, !.now = now]
            ELSE [IdleThread EXCEPT !.pc = "init", !.hours = hours, !.now = now, !.left = hours,
                                    !.hour = HourOf(HourStart(now) - (hours - 1) * 3600)]]
    /\ UNCHANGED <<store, calls, clock, funds, funding, settings, SURGE, surgeWrites, usedHours, views>>

----------------------------------------------------------------------------
(* Listings.  list_active_household_offers is one SELECT: WHERE status = active   *)
(* AND kwh_remaining > 0 ORDER BY price_eur_per_kwh ASC, created_ts DESC LIMIT     *)
(* limit.  The order of rows equal in both keys is the engine's: every order is    *)
(* possible.                                                                        *)
(* A listed row: [kind, provider_name, offer_id, price_eur_per_kwh]. *)
HouseholdItem(offs, o) ==
    [kind |-> "household", provider_name |-> "", offer_id |-> o,
     price_eur_per_kwh |-> offs[o].price_eur_per_kwh]

ActiveOffers(offs) ==
    {o \in 1..Len(offs) : offs[o].status = "active" /\ offs[o].kwh_remaining > 0}

(* Mutant of OrderedBefore: equal prices are ordered oldest first. *)
OrderedBeforeOldestFirst(a, b) ==
    \/ a.price_eur_per_kwh < b.price_eur_per_kwh
    \/ a.price_eur_per_kwh = b.price_eur_per_kwh /\ a.created_ts < b.created_ts

OrderedBefore(a, b) ==
    \/ a.price_eur_per_kwh < b.price_eur_per_kwh
    \/ a.price_eur_per_kwh = b.price_eur_per_kwh /\ a.created_ts > b.created_ts

Orderings(offs, ids) ==
    {q \in [1..Cardinality(ids) -> ids] :
        /\ \A i, j \in DOMAIN q : i # j => q[i] # q[j]
        /\ \A i, j \in DOMAIN q : i < j => ~OrderedBefore(offs[q[j]], offs[q[i]])}

Limited(q, limit) == SubSeq(q, 1, IF Len(q) < limit THEN Len(q) ELSE limit)

ListActiveHouseholdOffers(offs, limit) ==
    {Limited(q, limit) : q \in Orderings(offs, ActiveOffers(offs))}

ListActive(limit) ==
    /\ \E q \in ListActiveHouseholdOffers(offers, limit) :
            answer' = [NoAnswer EXCEPT !.op = "active", !.arg = limit,
                          !.items = [i \in 1..Len(q) |-> HouseholdItem(offers, q[i])]]
    /\ UNCHANGED <<store, calls, clock, funds, funding, pricing, samples>>

(* list_market_items: the provider items (when PROVIDER_VIRTUAL_PRICING is on),   *)
(* then the household offers, then list.sort by price, which is stable.  An item   *)
(* is [kind, provider_name, offer_id, price_eur_per_kwh].                          *)
ProviderItem(name, price) ==
    [kind |-> "provider", provider_name |-> name, offer_id |-> 0, price_eur_per_kwh |-> price]

ListProviderMarketItems(price) ==
    [i \in 1..Len(PROVIDER_NAMES) |-> ProviderItem(PROVIDER_NAMES[i], price)]

(* Mutant of InsertByPrice: the item goes before the items of its own price. *)
InsertByPriceBeforeEquals(sorted, item) ==
    LET k == Cardinality({i \in 1..Len(sorted) :
                            sorted[i].price_eur_per_kwh < item.price_eur_per_kwh})
    IN  SubSeq(sorted, 1, k) \o <<item>> \o SubSeq(sorted, k + 1, Len(sorted))

(* One item placed into a sorted list: after every item whose key is not greater. *)
InsertByPrice(sorted, item) ==
    LET k == Cardinality({i \in 1..Len(sorted) :
                            sorted[i].price_eur_per_kwh <= item.price_eur_per_kwh})
    IN  SubSeq(sorted, 1, k) \o <<item>> \o SubSeq(sorted, k + 1, Len(sorted))

RECURSIVE SortedByPrice(_)
SortedByPrice(items) ==
    IF items = <<>> THEN <<>>
    ELSE InsertByPrice(SortedByPrice(SubSeq(items, 1, Len(items) - 1)), items[Len(items)])

MarketItems(offs, household, price) ==
    SortedByPrice(
        (IF settings.virtual_pricing THEN ListProviderMarketItems(price) ELSE <<>>)
            \o [i \in 1..Len(household) |-> HouseholdItem(offs, household[i])])

(* _init_surge_once when no other thread is inside it: the windows it may leave. *)
SurgeChoices(surge) ==
    IF surge # NoSurge \/ ~settings.surge_enabled \/ AllowedHours(settings) = {}
    THEN {surge}
    ELSE {[hour |-> h, multiplier |-> settings.surge_multiplier] : h \in AllowedHours(settings)}

(* GET /offers.  With virtual pricing on, the price computation initialises the    *)
(* surge window if this is the first one of the process.                           *)
ListMarket(limit) ==
    /\ \E w \in (IF settings.virtual_pricing THEN SurgeChoices(SURGE) ELSE {SURGE}),
          household \in ListActiveHouseholdOffers(offers, limit) :
            /\ SURGE' = w
            /\ surgeWrites' = IF w # SURGE THEN surgeWrites + 1 ELSE surgeWrites
            /\ usedHours' = IF w = NoSurge \/ ~settings.virtual_pricing
                            THEN usedHours ELSE usedHours \cup {w.hour}
            /\ answer' = [NoAnswer EXCEPT !.op = "market", !.arg = limit,
                          !.items = MarketItems(offers, household,
                                        ProviderPrice(MultiplierNow(HourOf(clock), w)))]
    /\ UNCHANGED <<store, calls, clock, funds, funding, settings, threads, samples>>

----------------------------------------------------------------------------
Init ==
    /\ users = SeededUsers(<<>>, PROVIDER_NAMES)
    /\ offers = <<>>
    /\ trades = <<>>
    /\ calls = [c \in CallIds |-> IdleCall]
    /\ clock = 0
    /\ funds = 0
    /\ funding = IdleFund
    /\ settings = DefaultSettings
    /\ SURGE = NoSurge
    /\ surgeWrites = 0
    /\ threads = [t \in ThreadIds |-> IdleThread]
    /\ usedHours = {}
    /\ samples = <<>>
    /\ answer = NoAnswer

Next ==
    \/ SeedProviders
    \/ \E role \in RegisterRoles : CreateUser("user", role)
    \/ \E u \in UserIds, a \in AmountInputs : FundGetUser(u, a)
    \/ FundCommit
    \/ \E u \in UserIds, k \in OfferKwhInputs, p \in PriceInputs : CreateOffer(u, k, p)
    \/ \E c \in CallIds, b \in UserIds, o \in OfferIds, k \in KwhInputs, h \in HashInputs :
            AcceptGetOffer(c, b, o, k, h)
    \/ \E c \in CallIds : AcceptGetBuyer(c)
    \/ \E c \in CallIds : AcceptGetSeller(c)
    \/ \E c \in CallIds : AcceptCommit(c)
    \/ \E t \in TradeIds, h \in ConfirmHashes : ChainTradeConfirm(t, h)

Spec == Init /\ [][Next]_vars

(* Requests served one at a time: a request that has begun runs to its end before *)
(* any other operation starts.                                                     *)
Quiet == funding.pc = "idle" /\ \A c \in CallIds : calls[c].pc \in {"idle", "done"}

SerialNext ==
    \/ Quiet /\ SeedProviders
    \/ Quiet /\ \E role \in RegisterRoles : CreateUser("user", role)
    \/ Quiet /\ \E u \in UserIds, a \in AmountInputs : FundGetUser(u, a)
    \/ FundCommit
    \/ Quiet /\ \E u \in UserIds, k \in OfferKwhInputs, p \in PriceInputs : CreateOffer(u, k, p)
    \/ Quiet /\ \E c \in CallIds, b \in UserIds, o \in OfferIds, k \in KwhInputs, h \in HashInputs :
                    AcceptGetOffer(c, b, o, k, h)
    \/ \E c \in CallIds : AcceptGetBuyer(c)
    \/ \E c \in CallIds : AcceptGetSeller(c)
    \/ \E c \in CallIds : AcceptCommit(c)
    \/ Quiet /\ \E t \in TradeIds, h \in ConfirmHashes : ChainTradeConfirm(t, h)

SerialSpec == Init /\ [][SerialNext]_vars

(* Two accept_offer requests racing on a store that Spec reaches: a funded        *)
(* consumer (3.00 EUR), a producer and the producer's two offers of 10 kWh at     *)
(* 0.20 EUR/kWh.                                                                  *)
RaceUsers ==
    SeededUsers(<<>>, PROVIDER_NAMES)
        \o <<[email |-> "user", role |-> "consumer", balance_eur |-> FundedBalance(0, 300000)],
             [email |-> "user", role |-> "producer", balance_eur |-> 0]>>

RaceOffers == <<NewOffer(4, 1000000, 20000, 0), NewOffer(4, 1000000, 20000, 0)>>

RaceStore == [users |-> RaceUsers, offers |-> RaceOffers, trades |-> <<>>]

RaceInit ==
    /\ users = RaceUsers
    /\ offers = RaceOffers
    /\ trades = <<>>
    /\ calls = [c \in CallIds |-> IdleCall]
    /\ clock = 0
    /\ funds = 1
    /\ funding = IdleFund
    /\ settings = DefaultSettings
    /\ SURGE = NoSurge
    /\ surgeWrites = 0
    /\ threads = [t \in ThreadIds |-> IdleThread]
    /\ usedHours = {}
    /\ samples = <<>>
    /\ answer = NoAnswer

RaceNext ==
    \/ \E c \in CallIds, b \in UserIds, o \in OfferIds, k \in KwhInputs, h \in HashInputs :
            AcceptGetOffer(c, b, o, k, h)
    \/ \E c \in CallIds : AcceptGetBuyer(c)
    \/ \E c \in CallIds : AcceptGetSeller(c)
    \/ \E c \in CallIds : AcceptCommit(c)

RaceSpec == RaceInit /\ [][RaceNext]_vars

(* One fund_user request and one accept_offer request racing on that store. *)
FundRaceInit ==
    /\ users = RaceUsers
    /\ offers = RaceOffers
    /\ trades = <<>>
    /\ calls = [c \in CallIds |-> IdleCall]
    /\ clock = 0
    /\ funds = 0
    /\ funding = IdleFund
    /\ settings = DefaultSettings
    /\ SURGE = NoSurge
    /\ surgeWrites = 0
    /\ threads = [t \in ThreadIds |-> IdleThread]
    /\ usedHours = {}
    /\ samples = <<>>
    /\ answer = NoAnswer

FundRaceNext ==
    \/ \E u \in UserIds, a \in AmountInputs : FundGetUser(u, a)
    \/ FundCommit
    \/ \E b \in UserIds, o \in OfferIds, k \in KwhInputs, h \in HashInputs :
            AcceptGetOffer(1, b, o, k, h)
    \/ AcceptGetBuyer(1)
    \/ AcceptGetSeller(1)
    \/ AcceptCommit(1)

FundRaceSpec == FundRaceInit /\ [][FundRaceNext]_vars

(* The pricing oracle of one process, for every surge configuration. *)
PricingInit ==
    /\ users = SeededUsers(<<>>, PROVIDER_NAMES)
    /\ offers = <<>>
    /\ trades = <<>>
    /\ calls = [c \in CallIds |-> IdleCall]
    /\ clock = 0
    /\ funds = 0
    /\ funding = IdleFund
    /\ settings \in SettingsInputs
    /\ SURGE = NoSurge
    /\ surgeWrites = 0
    /\ threads = [t \in ThreadIds |-> IdleThread]
    /\ usedHours = {}
    /\ samples = <<>>
    /\ answer = NoAnswer

PricingNext ==
    \/ \E t \in ThreadIds, h \in HourInputs : MultiplierCall(t, h)
    \/ \E t \in ThreadIds : InitSurgeCheck(t)
    \/ \E t \in ThreadIds : InitSurgeAssign(t)
    \/ \E t \in ThreadIds : MultiplierReturn(t)

PricingSpec == PricingInit /\ [][PricingNext]_vars

(* GET /provider/series served by the threads of one process, next to plain price *)
(* computations, from the start of the process.                                   *)
SeriesHoursInputs == {1, 2, 3}
NowInputs == {66600, 88200}                \* 18:30 on the first day, 00:30 on the second

SeriesInit ==
    /\ users = SeededUsers(<<>>, PROVIDER_NAMES)
    /\ offers = <<>>
    /\ trades = <<>>
    /\ calls = [c \in CallIds |-> IdleCall]
    /\ clock = 0
    /\ funds = 0
    /\ funding = IdleFund
    /\ settings \in {st \in SettingsInputs : st.schedule = PROVIDER_PRICE_SCHEDULE}
    /\ SURGE = NoSurge
    /\ surgeWrites = 0
    /\ threads = [t \in ThreadIds |-> IdleThread]
    /\ usedHours = {}
    /\ samples = <<>>
    /\ answer = NoAnswer

SeriesNext ==
    \/ \E t \in ThreadIds, n \in SeriesHoursInputs, now \in NowInputs : SeriesCall(t, n, now)
    \/ \E t \in ThreadIds, h \in HourInputs : MultiplierCall(t, h)
    \/ \E t \in ThreadIds : InitSurgeCheck(t)
    \/ \E t \in ThreadIds : InitSurgeAssign(t)
    \/ \E t \in ThreadIds : MultiplierReturn(t)

SeriesSpec == SeriesInit /\ [][SeriesNext]_vars

(* The listings of a market that a funded consumer, a producer and the clock     *)
(* build up from no offers, one request at a time.  The deployment prices hours   *)
(* 0 to 6 at 0.8 of the base price and may put its surge on hour 1 or 2; virtual  *)
(* pricing is on or off.                                                          *)
ListingPriceInputs == {16000, 20000}       \* 0.16 and 0.20 EUR/kWh
LimitInputs == {1, 2}

ListingSettings ==
    {[DefaultSettings EXCEPT !.allowed_hours = <<1, 2>>, !.virtual_pricing = v] : v \in BOOLEAN}

ListingInit ==
    /\ users = RaceUsers
    /\ offers = <<>>
    /\ trades = <<>>
    /\ calls = [c \in CallIds |-> IdleCall]
    /\ clock = 0
    /\ funds = 1
    /\ funding = IdleFund
    /\ settings \in ListingSettings
    /\ SURGE = NoSurge
    /\ surgeWrites = 0
    /\ threads = [t \in ThreadIds |-> IdleThread]
    /\ usedHours = {}
    /\ samples = <<>>
    /\ answer = NoAnswer

ListingNext ==
    \/ \E u \in UserIds, k \in OfferKwhInputs, p \in ListingPriceInputs : CreateOffer(u, k, p)
    \/ \E b \in UserIds, o \in OfferIds, k \in KwhInputs, h \in HashInputs : AcceptOffer(b, o, k, h)
    \/ Tick
    \/ \E limit \in LimitInputs : ListActive(limit)
    \/ \E limit \in LimitInputs : ListMarket(limit)

ListingSpec == ListingInit /\ [][ListingNext]_vars

(* Meter ingestion on a store that BookSpec reaches: the providers and one        *)
(* registered producer; the last account id that requests name does not exist.    *)
MeterUsers ==
    SeededUsers(<<>>, PROVIDER_NAMES) \o <<[email |-> "user", role |-> "producer", balance_eur |-> 0]>>

MeterInit ==
    /\ users = MeterUsers
    /\ offers = <<>>
    /\ trades = <<>>
    /\ calls = [c \in CallIds |-> IdleCall]
    /\ clock = 0
    /\ funds = 0
    /\ funding = IdleFund
    /\ settings = DefaultSettings
    /\ SURGE = NoSurge
    /\ surgeWrites = 0
    /\ threads = [t \in ThreadIds |-> IdleThread]
    /\ usedHours = {}
    /\ samples = <<>>
    /\ answer = NoAnswer

MeterNext ==
    \/ \E u \in UserIds, prod \in ProdInputs, cons \in ConsInputs, ts \in TsInputs :
            RecordMeterSample(u, prod, cons, ts)
    \/ Tick
    \/ \E u \in UserIds, h \in WindowHoursInputs : ComputeSurplus(u, h)

MeterSpec == MeterInit /\ [][MeterNext]_vars

(* The marketplace from an empty database, every request served alone and as one *)
(* step.  on_startup seeds the providers before the first request is served, and *)
(* again whenever the process is started again.                                  *)
BookInit ==
    /\ users = <<>>
    /\ offers = <<>>
    /\ trades = <<>>
    /\ calls = [c \in CallIds |-> IdleCall]
    /\ clock = 0
    /\ funds = 0
    /\ funding = IdleFund
    /\ settings = DefaultSettings
    /\ SURGE = NoSurge
    /\ surgeWrites = 0
    /\ threads = [t \in ThreadIds |-> IdleThread]
    /\ usedHours = {}
    /\ samples = <<>>
    /\ answer = NoAnswer

(* The accounts that send samples while the book is served: the first registered. *)
BookMeterUsers == {Len(PROVIDER_NAMES) + 1}

Serving == users # <<>> /\ funding.pc = "idle"

BookNext ==
    \/ funding.pc = "idle" /\ SeedProviders
    \/ Serving /\ \E role \in RegisterRoles : CreateUser("user", role)
    \/ Serving /\ \E u \in UserIds, a \in AmountInputs : FundGetUser(u, a)
    \/ FundCommit
    \/ Serving /\ \E u \in UserIds, k \in OfferKwhInputs, p \in PriceInputs : CreateOffer(u, k, p)
    \/ Serving /\ \E b \in UserIds, o \in OfferIds, k \in KwhInputs, h \in HashInputs :
                    AcceptOffer(b, o, k, h)
    \/ Serving /\ \E t \in TradeIds, h \in ConfirmHashes : ChainTradeConfirm(t, h)
    \/ Serving /\ \E u \in BookMeterUsers : RecordMeterSample(u, 50000, 30000, clock)

BookSpec == BookInit /\ [][BookNext]_vars

(* The accounts' ledger: registration, funding, offers and settlements, each     *)
(* request served alone and as one step, after the providers were seeded.        *)
LedgerKwhInputs == {1000000}

LedgerInit ==
    /\ users = SeededUsers(<<>>, PROVIDER_NAMES)
    /\ offers = <<>>
    /\ trades = <<>>
    /\ calls = [c \in CallIds |-> IdleCall]
    /\ clock = 0
    /\ funds = 0
    /\ funding = IdleFund
    /\ settings = DefaultSettings
    /\ SURGE = NoSurge
    /\ surgeWrites = 0
    /\ threads = [t \in ThreadIds |-> IdleThread]
    /\ usedHours = {}
    /\ samples = <<>>
    /\ answer = NoAnswer

LedgerNext ==
    \/ \E role \in RegisterRoles : CreateUser("user", role)
    \/ \E u \in UserIds, a \in FundAmountInputs : FundUser(u, a)
    \/ \E u \in UserIds, k \in LedgerKwhInputs, p \in ListingPriceInputs : CreateOffer(u, k, p)
    \/ \E b \in UserIds, o \in OfferIds, k \in KwhInputs, h \in HashInputs :
            AcceptOffer(b, o, k, h)

LedgerSpec == LedgerInit /\ [][LedgerNext]_vars

----------------------------------------------------------------------------
(* Properties. *)

RECURSIVE SumKwh(_, _)
SumKwh(rows, o) ==
    IF rows = <<>> THEN 0
    ELSE (IF Head(rows).offer_id = o THEN Head(rows).kwh ELSE 0) + SumKwh(Tail(rows), o)

RECURSIVE SumTotal(_, _)
SumTotal(rows, b) ==
    IF rows = <<>> THEN 0
    ELSE (IF Head(rows).buyer_id = b THEN Head(rows).total_eur ELSE 0) + SumTotal(Tail(rows), b)

Succeeded == {c \in CallIds : calls[c].result = "ok"}

(* C1: however the steps of concurrent accept_offer requests on one offer          *)
(* interleave, the kWh of the requests that succeed (the kWh of their trades) sum   *)
(* to at most the quantity the offer had before them: the offer is never oversold.  *)
NeverOversold ==
    \A o \in 1..Len(offers) : SumKwh(trades, o) <= offers[o].kwh_total

(* C2: every offer has 0 <= kwh_remaining <= kwh_total, and is closed exactly when  *)
(* kwh_remaining is 0.                                                              *)
OfferInvariant ==
    \A o \in 1..Len(offers) :
        /\ 0 <= offers[o].kwh_remaining
        /\ offers[o].kwh_remaining <= offers[o].kwh_total
        /\ (offers[o].status = "closed") <=> (offers[o].kwh_remaining = 0)

(* C4: two concurrent accept_offer requests leave the store (balances, offers, the  *)
(* set of trades) that running the two one after the other, in one of the two       *)
(* orders, leaves.                                                                  *)
CallArgs(c) == NewCall(calls[c].buyer_id, calls[c].offer_id, calls[c].kwh, calls[c].tx_hash)

SerialRun(first, second) ==
    AcceptAlone(AcceptAlone(RaceStore, 0, CallArgs(first)).store, 0, CallArgs(second)).store

SameOutcome(st) ==
    /\ users = st.users
    /\ offers = st.offers
    /\ Range(trades) = Range(st.trades)

Serializable ==
    (/\ calls[1].pc = "done" /\ calls[2].pc = "done"
     /\ \A c \in CallIds \ {1, 2} : calls[c].pc = "idle")
        => SameOutcome(SerialRun(1, 2)) \/ SameOutcome(SerialRun(2, 1))

(* C5: no account balance is ever negative, whatever register, fund_user and        *)
(* accept_offer requests ran and however their steps interleaved.                   *)
NonNegativeBalances ==
    \A u \in 1..Len(users) : users[u].balance_eur >= 0

(* C5's case: one buyer's two accepts on different offers have both committed, and  *)
(* together they charged more than the account was ever funded with.                *)
BuyerOvercharged ==
    \E b \in 1..Len(users) :
        /\ Len(trades) = 2
        /\ trades[1].buyer_id = b /\ trades[2].buyer_id = b
        /\ trades[1].offer_id # trades[2].offer_id
        /\ offers[1].seller_id # b /\ offers[2].seller_id # b
        /\ SumTotal(trades, b) > Round4(300000)
        /\ users[b].balance_eur >= 0

(* A step in which request c commits, and one in which it starts. *)
Commits(c) == calls[c].pc = "commit" /\ calls'[c].pc = "done"
Starts(c) == calls[c].pc = "idle" /\ calls'[c].pc # "idle"

(* C3 as stated: every successful accept_offer, whoever the buyer is, lowers the    *)
(* buyer's balance by total = round(kwh * price, 4) and raises the seller's by      *)
(* total - fee, fee = round(total * feeRate, 4).                                    *)
SettlementMovesFunds ==
    [][\A c \in CallIds : Commits(c) =>
        LET r == calls[c]
            total == Total(r.kwh, r.offer.price_eur_per_kwh)
        IN  /\ users'[r.buyer_id].balance_eur = users[r.buyer_id].balance_eur - total
            /\ users'[r.offer.seller_id].balance_eur
                    = users[r.offer.seller_id].balance_eur + (total - Fee(total))]_vars

(* C3 amended: that holds when the buyer is not the offer's seller; when the buyer  *)
(* is the seller, the one account is debited total and credited total - fee, so its *)
(* balance drops by fee.                                                            *)
SettlementMovesFundsBetweenAccounts ==
    [][\A c \in CallIds : Commits(c) =>
        LET r == calls[c]
            total == Total(r.kwh, r.offer.price_eur_per_kwh)
        IN  IF r.buyer_id # r.offer.seller_id
            THEN /\ users'[r.buyer_id].balance_eur = users[r.buyer_id].balance_eur - total
                 /\ users'[r.offer.seller_id].balance_eur
                        = users[r.offer.seller_id].balance_eur + (total - Fee(total))
            ELSE users'[r.buyer_id].balance_eur = users[r.buyer_id].balance_eur - Fee(total)]_vars

(* C3's case, with the numbers of the spec's scenario: 5 kWh at 0.20 bought by an   *)
(* account holding 3.00 from another account: total 1.00, fee 0.10.                 *)
SettledBetweenAccounts ==
    \E b, u \in 1..Len(users) :
        /\ b # u
        /\ Len(trades) = 1 /\ Len(offers) >= 1
        /\ trades[1] = [offer_id |-> 1, buyer_id |-> b, kwh |-> 50000, total_eur |-> 10000,
                        ts |-> 0, tx_hash |-> NoHash]
        /\ offers[1].seller_id = u
        /\ users[b].balance_eur = 20000
        /\ users[u].balance_eur = 9000
        /\ Quiet

(* C6: a request that fails a validation step changes nothing in the store, neither *)
(* in the step that fails nor in any step before it.                                *)
FailedAcceptChangesNothing ==
    [][\A c \in CallIds :
        (calls'[c] # calls[c] /\ calls'[c].result # "ok") => UNCHANGED store]_vars

(* C6's case: requests have failed at the last check and at an earlier one, and     *)
(* the store holds no trade.                                                        *)
AcceptsFailed ==
    /\ \E c \in CallIds : calls[c].result = "Insufficient buyer balance"
    /\ \E c \in CallIds : calls[c].result = "Offer not available"
    /\ trades = <<>>

(* C7: once successful accepts have consumed an offer's whole quantity, the offer   *)
(* has kwh_remaining 0 and status closed, and every later accept_offer on it, for   *)
(* any kwh > 0 and any buyer, fails with "Offer not available" and changes nothing. *)
Consumed(o) ==
    /\ \E i \in 1..Len(trades) : trades[i].offer_id = o
    /\ SumKwh(trades, o) >= offers[o].kwh_total

ConsumedOfferStaysClosed ==
    /\ [](\A o \in 1..Len(offers) :
            Consumed(o) => offers[o].kwh_remaining = 0 /\ offers[o].status = "closed")
    /\ [][\A c \in CallIds :
            (/\ Starts(c)
             /\ calls'[c].kwh > 0
             /\ Exists(offers, calls'[c].offer_id)
             /\ Consumed(calls'[c].offer_id))
                => calls'[c].result = "Offer not available" /\ UNCHANGED store]_vars

(* C7's case: an accept was refused on an offer that trades have consumed. *)
RefusedOnConsumedOffer ==
    \E c \in CallIds :
        /\ calls[c].result = "Offer not available"
        /\ Exists(offers, calls[c].offer_id)
        /\ Consumed(calls[c].offer_id)

(* C8 as stated: a successful accept for kwh strictly less than the remaining sets  *)
(* kwh_remaining to round(remaining - kwh, 4) and leaves the offer active; one      *)
(* whose round(remaining - kwh, 4) is <= 1e-9 sets it to 0 and closes the offer.    *)
AcceptReducesRemaining ==
    [][\A c \in CallIds : Commits(c) =>
        LET o == calls[c].offer_id
            k == calls[c].kwh
            rem == Units(offers[o].kwh_remaining)
        IN  /\ k < rem => /\ offers'[o].kwh_remaining = RoundDiv(rem - k, 10)
                          /\ offers'[o].status = "active"
            /\ RoundDiv(rem - k, 10) <= 0 => /\ offers'[o].kwh_remaining = 0
                                             /\ offers'[o].status = "closed"]_vars

(* C8 amended: the offer stays active when round(remaining - kwh, 4) is above 0,    *)
(* not whenever kwh is below the remaining.                                         *)
AcceptReducesRoundedRemaining ==
    [][\A c \in CallIds : Commits(c) =>
        LET o == calls[c].offer_id
            k == calls[c].kwh
            rem == Units(offers[o].kwh_remaining)
        IN  /\ RoundDiv(rem - k, 10) > 0 => /\ offers'[o].kwh_remaining = RoundDiv(rem - k, 10)
                                            /\ offers'[o].status = "active"
            /\ RoundDiv(rem - k, 10) <= 0 => /\ offers'[o].kwh_remaining = 0
                                             /\ offers'[o].status = "closed"]_vars

(* C8's case: the spec's scenario, 5 of 10 kWh accepted and the offer still active, *)
(* and an offer closed by an accept.                                                *)
PartlyAndFullyAccepted ==
    /\ Len(offers) = 2 /\ Len(trades) = 2
    /\ offers[1].kwh_total = 100000 /\ offers[2].kwh_total = 100000
    /\ \E o \in {1, 2} :
        /\ offers[o].kwh_remaining = 50000 /\ offers[o].status = "active"
        /\ offers[3 - o].kwh_remaining = 0 /\ offers[3 - o].status = "closed"

(* C9: with surge enabled and a non-empty allowed range, a window is assigned to    *)
(* _SURGE at most once, its hour lies in the range, and all price computations of   *)
(* the process compare with one surge hour.                                         *)
SurgeChosenOnce ==
    (settings.surge_enabled /\ AllowedHours(settings) # {}) =>
        /\ surgeWrites <= 1
        /\ SURGE # NoSurge => SURGE.hour \in AllowedHours(settings)
        /\ Cardinality(usedHours) <= 1

(* C10: there is one trade per successful accept_offer and none for a failed one;   *)
(* a step adds at most one trade, and only the commit of an accept does; a trade's  *)
(* offer, buyer, kwh, total and timestamp never change; a step that changes a       *)
(* tx_hash changes that of one trade and nothing else.                              *)
SameButHash(new, old) == [new EXCEPT !.tx_hash = old.tx_hash] = old

TradesAreFinal ==
    /\ [](Len(trades) = Cardinality(Succeeded))
    /\ [][/\ Len(trades') \in {Len(trades), Len(trades) + 1}
          /\ Len(trades') = Len(trades) + 1 => \E c \in CallIds : Commits(c)
          /\ \A i \in 1..Len(trades) : SameButHash(trades'[i], trades[i])
          /\ \A i \in 1..Len(trades) : trades'[i] # trades[i] =>
                /\ Len(trades') = Len(trades)
                /\ \A j \in 1..Len(trades) : j # i => trades'[j] = trades[j]
                /\ UNCHANGED <<users, offers, calls>>]_vars

(* C10's case: one accept succeeded, one failed, and the trade has been confirmed. *)
TradeConfirmed ==
    /\ Len(trades) = 1
    /\ trades[1].tx_hash = "0xa"
    /\ Cardinality(Succeeded) = 1
    /\ \E c \in CallIds : calls[c].pc = "done" /\ calls[c].result # "ok"

(* C11: every account with role provider has the balance it was seeded with, 0,     *)
(* whatever fund_user and accept_offer requests were served and whatever account    *)
(* ids they named.                                                                  *)
ProviderBalancesFixed ==
    \A u \in 1..Len(users) : users[u].role = "provider" => users[u].balance_eur = 0

(* C12: create_offer persists nothing when the seller does not exist, when the     *)
(* seller's role is not producer or both, or when kwh or price is not above 0;      *)
(* otherwise it adds one offer, active, of the given seller, with kwh_remaining =   *)
(* kwh_total = round(kwh, 4) and price = round(price, 4), and changes no existing   *)
(* offer and no account.                                                            *)
CreateOfferContract ==
    [][\A u \in UserIds, k \in OfferKwhInputs, p \in PriceInputs : CreateOffer(u, k, p) =>
        IF \/ ~Exists(users, u)
           \/ users[u].role \notin {"producer", "both"}
           \/ k <= 0
           \/ p <= 0
        THEN UNCHANGED store
        ELSE /\ Len(offers') = Len(offers) + 1
             /\ offers'[Len(offers')].seller_id = u
             /\ offers'[Len(offers')].status = "active"
             /\ offers'[Len(offers')].kwh_total = RoundDiv(k, 10)
             /\ offers'[Len(offers')].kwh_remaining = RoundDiv(k, 10)
             /\ offers'[Len(offers')].price_eur_per_kwh = RoundDiv(p, 10)
             /\ \A o \in 1..Len(offers) : offers'[o] = offers[o]
             /\ UNCHANGED <<users, trades>>]_vars

(* C12's case: a producer holding money has created a second offer, next to one    *)
(* that an accept has reduced.                                                     *)
OfferCreatedBesideAnother ==
    /\ Len(offers) = 2 /\ Len(trades) = 1
    /\ offers[1].kwh_remaining = 50000
    /\ offers[2].status = "active"
    /\ offers[2].kwh_total = 100000 /\ offers[2].kwh_remaining = 100000
    /\ offers[2].price_eur_per_kwh = 2000
    /\ users[offers[2].seller_id].role = "producer"
    /\ users[offers[2].seller_id].balance_eur = 9000

(* C13: no step deletes an offer, and a step that changes an existing offer is the *)
(* settlement of an accept_offer on that offer (it appends the trade that names    *)
(* it), changes its kwh_remaining and status only, and changes no other offer;     *)
(* fund_user, create_user, create_offer, record_meter_sample and trade-confirm     *)
(* leave every existing offer as it was.                                           *)
OffersChangeBySettlementOnly ==
    [][/\ Len(offers') >= Len(offers)
       /\ \A o \in 1..Len(offers) : offers'[o] # offers[o] =>
            /\ Len(trades') = Len(trades) + 1
            /\ trades'[Len(trades')].offer_id = o
            /\ [offers'[o] EXCEPT !.kwh_remaining = offers[o].kwh_remaining,
                                  !.status = offers[o].status] = offers[o]
            /\ \A j \in 1..Len(offers) : j # o => offers'[j] = offers[j]]_vars

(* C13's case: an accept has reduced the first offer; the second offer, created    *)
(* after it, is whole; a sample was recorded, an account funded and the trade      *)
(* confirmed.                                                                      *)
OfferReducedOthersWhole ==
    /\ Len(offers) = 2 /\ Len(trades) = 1 /\ Len(samples) >= 1
    /\ trades[1].offer_id = 1 /\ trades[1].tx_hash = "0xa"
    /\ offers[1].kwh_total = 100000 /\ offers[1].kwh_remaining = 50000
    /\ offers[2].kwh_total = 100000 /\ offers[2].kwh_remaining = 100000
    /\ funds = 1

(* C14: once seed_providers_if_missing has run, however many times it runs again   *)
(* there is exactly one account with role provider for each configured provider    *)
(* name; a call that finds the providers adds no account.                          *)
ProviderRows(table, name) ==
    {u \in 1..Len(table) : table[u].role = "provider" /\ table[u].email = name}

SeedingIsIdempotent ==
    /\ [](users # <<>> =>
            \A n \in Range(PROVIDER_NAMES) : Cardinality(ProviderRows(users, n)) = 1)
    /\ [][(\E n \in Range(PROVIDER_NAMES) : ProviderRows(users, n) # {}) =>
            \A u \in 1..Len(users') : users'[u].role = "provider" => u <= Len(users)]_vars

(* C14's case: the providers were seeded into the empty database, accounts were    *)
(* registered after them, and there is one provider row per name.                  *)
SeededOnceThenRegistered ==
    /\ Len(users) = Len(PROVIDER_NAMES) + 2
    /\ \A n \in Range(PROVIDER_NAMES) : Cardinality(ProviderRows(users, n)) = 1
    /\ users[Len(users)].role = "producer"

(* C15: record_meter_sample persists nothing when production or consumption is    *)
(* negative or the account does not exist; otherwise it adds exactly one sample,   *)
(* with the caller's ts, or with the current time when the caller gave none, and   *)
(* leaves the existing samples as they were.                                       *)
SampleRecordedWithTime ==
    [][\A u \in UserIds, prod \in ProdInputs, cons \in ConsInputs, ts \in TsInputs :
        RecordMeterSample(u, prod, cons, ts) =>
            IF prod < 0 \/ cons < 0 \/ ~Exists(users, u)
            THEN UNCHANGED samples
            ELSE samples' = Append(samples,
                    [user_id |-> u, production_kwh |-> prod, consumption_kwh |-> cons,
                     ts |-> IF ts = NoTs THEN clock ELSE ts])]_vars

(* C16: provider_multiplier_now returns the surge multiplier when a surge window   *)
(* is set and the hour is its hour, whatever the schedule says for that hour;      *)
(* otherwise the multiplier of the first schedule interval [start, end) that       *)
(* contains the hour; otherwise 1.0.                                               *)
Returns(t) == threads[t].pc = "use" /\ threads'[t].pc = "idle"

Contains(interval, hour) == interval[1] <= hour /\ hour < interval[2]

MultiplierByHour ==
    [][\A t \in ThreadIds : Returns(t) =>
        LET hour == threads[t].hour
            sched == settings.schedule
            m == threads'[t].m
        IN  IF SURGE # NoSurge /\ SURGE.hour = hour THEN m = SURGE.multiplier
            ELSE IF \E i \in 1..Len(sched) : Contains(sched[i], hour)
                 THEN \E i \in 1..Len(sched) :
                        /\ Contains(sched[i], hour)
                        /\ \A j \in 1..(i - 1) : ~Contains(sched[j], hour)
                        /\ m = sched[i][3]
                 ELSE m = 100]_vars

(* C16's case: with the surge window on an hour the schedule prices at 1.5, one    *)
(* call returned the surge multiplier 2.5 and another the schedule's 1.5.          *)
SurgeReplacedSchedule ==
    /\ settings.schedule = PROVIDER_PRICE_SCHEDULE
    /\ SURGE # NoSurge /\ SURGE.hour = 17
    /\ surgeWrites = 1
    /\ threads[1].pc = "idle" /\ threads[1].m = 250
    /\ threads[2].pc = "idle" /\ threads[2].m = 150

(* C17: provider_series_past_hours(N) returns N points whose timestamps are        *)
(* multiples of 3600, ascend in steps of 3600 and end at the start of the current  *)
(* hour, and whose prices are the oracle's prices at those timestamps under one     *)
(* surge window, the same for every point.                                          *)
SeriesDone(t) == threads[t].pc = "idle" /\ threads[t].hours > 0

SurgeWindows ==
    {NoSurge} \cup {[hour |-> h, multiplier |-> settings.surge_multiplier] : h \in 0..23}

SeriesUnderOneSurgeWindow ==
    \A t \in ThreadIds : SeriesDone(t) =>
        LET out == threads[t].out
        IN  /\ Len(out) = threads[t].hours
            /\ \A i \in 1..Len(out) : out[i][1] % 3600 = 0
            /\ \A i \in 1..(Len(out) - 1) : out[i + 1][1] = out[i][1] + 3600
            /\ out[Len(out)][1] <= threads[t].now /\ threads[t].now < out[Len(out)][1] + 3600
            /\ \E w \in SurgeWindows : \A i \in 1..Len(out) :
                    out[i][2] = RoundDiv(PROVIDER_BASE_PRICE
                                            * MultiplierNow(HourOf(out[i][1]), w), 100)

(* C19: list_active_household_offers(limit) returns offers that are active with   *)
(* kwh_remaining > 0 and no other, at most limit of them, by price ascending and,  *)
(* for equal prices, by creation time descending; they are the first limit offers  *)
(* of that ordering.  Settlements that close or deplete an offer take it out.      *)
Listed(op) == answer' # answer /\ answer'.op = op

Eligible == {o \in 1..Len(offers) : offers[o].status = "active" /\ offers[o].kwh_remaining > 0}

InListingOrder(a, b) ==
    /\ a.price_eur_per_kwh <= b.price_eur_per_kwh
    /\ a.price_eur_per_kwh = b.price_eur_per_kwh => a.created_ts >= b.created_ts

ActiveListingOrdered ==
    [][Listed("active") =>
        LET items == [i \in 1..Len(answer'.items) |-> answer'.items[i].offer_id]
            limit == answer'.arg
        IN  /\ \A i \in 1..Len(items) : items[i] \in Eligible
            /\ Len(items) <= limit
            /\ Cardinality(Eligible) >= limit => Len(items) = limit
            /\ Cardinality(Eligible) < limit => Len(items) = Cardinality(Eligible)
            /\ \A i, j \in 1..Len(items) : i < j =>
                    /\ items[i] # items[j]
                    /\ InListingOrder(offers[items[i]], offers[items[j]])
            /\ \A o \in Eligible \ Range(items) : \A i \in 1..Len(items) :
                    InListingOrder(offers[items[i]], offers[o])]_vars

(* C19's case: two active offers of one price; the newer one, which a settlement   *)
(* has reduced to 5 kWh, is listed before the older one.                           *)
NewerOfferListedFirst ==
    /\ Len(offers) = 2 /\ Len(trades) = 1
    /\ offers[1].price_eur_per_kwh = offers[2].price_eur_per_kwh
    /\ offers[1].created_ts < offers[2].created_ts
    /\ offers[1].kwh_remaining = 100000 /\ offers[2].kwh_remaining = 50000
    /\ answer.op = "active" /\ answer.arg = 2
    /\ Len(answer.items) = 2
    /\ answer.items[1].offer_id = 2 /\ answer.items[2].offer_id = 1

(* C18: list_market_items returns every virtual provider item and at most          *)
(* limit_household household offers, all active; the list ascends by price; items  *)
(* of one price stand as before the sort, providers before household offers, the   *)
(* providers in the order of their names and the household offers in the order of  *)
(* their listing; a household offer priced below the providers stands before them. *)
Kinds(items, kind) == {i \in 1..Len(items) : items[i].kind = kind}

MarketListingSorted ==
    [][Listed("market") =>
        LET items == answer'.items
            limit == answer'.arg
            house == Kinds(items, "household")
            prov == Kinds(items, "provider")
        IN  /\ house \cup prov = 1..Len(items)
            /\ IF settings.virtual_pricing
               THEN \A n \in 1..Len(PROVIDER_NAMES) :
                        \E i \in prov : /\ items[i].provider_name = PROVIDER_NAMES[n]
                                        /\ Cardinality({j \in prov : j < i}) = n - 1
               ELSE prov = {}
            /\ Cardinality(prov) \in {0, Len(PROVIDER_NAMES)}
            /\ Cardinality(house) <= limit
            /\ \A i \in house : items[i].offer_id \in Eligible
            /\ \A i, j \in house : i # j => items[i].offer_id # items[j].offer_id
            /\ \A i, j \in 1..Len(items) : i < j =>
                    items[i].price_eur_per_kwh <= items[j].price_eur_per_kwh
            /\ \A i \in house, j \in prov :
                    /\ items[i].price_eur_per_kwh = items[j].price_eur_per_kwh => j < i
                    /\ items[i].price_eur_per_kwh < items[j].price_eur_per_kwh => i < j
            /\ \A i, j \in house : i < j =>
                    InListingOrder(offers[items[i].offer_id], offers[items[j].offer_id])]_vars

(* C18's case: in the surge hour the providers cost 0.50; the household offers at  *)
(* 0.16 and 0.20 are listed before them.                                           *)
HouseholdBelowProviders ==
    /\ answer.op = "market" /\ Len(answer.items) = 4
    /\ answer.items[1].kind = "household" /\ answer.items[1].price_eur_per_kwh = 1600
    /\ answer.items[2].kind = "household" /\ answer.items[2].price_eur_per_kwh = 2000
    /\ answer.items[3] = ProviderItem(PROVIDER_NAMES[1], 5000)
    /\ answer.items[4] = ProviderItem(PROVIDER_NAMES[2], 5000)

(* C20: with the samples and the current time fixed, compute_surplus_last_hours   *)
(* does not decrease when hours grows, and its value is the rounded sum, over the  *)
(* user's samples in the window, of max(0, production - consumption) of each.      *)
InWindow(user_id, hours) ==
    {i \in 1..Len(samples) :
        /\ samples[i].user_id = user_id
        /\ samples[i].ts # NoTs
        /\ samples[i].ts >= clock - hours * 3600}

RECURSIVE PositiveParts(_)
PositiveParts(rows) ==
    IF rows = {} THEN 0
    ELSE LET i == CHOOSE j \in rows : TRUE
             d == samples[i].production_kwh - samples[i].consumption_kwh
         IN  (IF d > 0 THEN d ELSE 0) + PositiveParts(rows \ {i})

SurplusGrowsWithWindow ==
    [][Listed("surplus") =>
        LET u == answer'.user_id
            h == answer'.arg
            v == answer'.value
        IN  /\ v = RoundDiv(PositiveParts(InWindow(u, h)), 10)
            /\ \A h2 \in WindowHoursInputs :
                    /\ h <= h2 => v <= ComputeSurplusLastHours(samples, u, h2, clock)
                    /\ h2 <= h => ComputeSurplusLastHours(samples, u, h2, clock) <= v]_vars

(* C20's case: of a user's two samples, one with more consumption than production  *)
(* an hour ago and one with 0.20004 kWh of surplus now, the window of 1 hour holds *)
(* both and gives 0.2.                                                             *)
SurplusOverTwoSamples ==
    /\ clock = 3600
    /\ Len(samples) = 2
    /\ samples[1] = NewSample(3, 20000, 30000, 0)
    /\ samples[2] = NewSample(3, 50004, 30000, 3600)
    /\ answer = [NoAnswer EXCEPT !.op = "surplus", !.user_id = 3, !.arg = 1, !.value = 2000]

(* C21: an accept_offer request that breaks rules reports the first broken rule in *)
(* the order: kwh not positive, offer not found, offer not available, kwh exceeds  *)
(* remaining, buyer not found, seller not found, insufficient buyer balance.       *)
(* Rules(r) lists, in that order, whether request r breaks each rule in the        *)
(* current store; a rule about a row that does not exist is not broken.            *)
Rules(r) ==
    LET hasOffer == Exists(offers, r.offer_id)
        hasBuyer == Exists(users, r.buyer_id)
        o == offers[r.offer_id]
    IN  << <<r.kwh <= 0, "kWh must be positive">>,
           <<~hasOffer, "Offer not found">>,
           <<hasOffer /\ (o.status # "active" \/ o.kwh_remaining <= 0), "Offer not available">>,
           <<hasOffer /\ r.kwh > 10 * o.kwh_remaining, "Requested kWh exceeds remaining">>,
           <<~hasBuyer, "Buyer not found">>,
           <<hasOffer /\ ~Exists(users, o.seller_id), "Seller not found">>,
           <<hasOffer /\ hasBuyer
                /\ users[r.buyer_id].balance_eur
                      < RoundDiv(r.kwh * o.price_eur_per_kwh, 100000),
             "Insufficient buyer balance">> >>

Broken(r) == {i \in DOMAIN Rules(r) : Rules(r)[i][1]}

FirstBroken(r) ==
    IF Broken(r) = {} THEN "ok"
    ELSE Rules(r)[CHOOSE i \in Broken(r) : \A j \in Broken(r) : i <= j][2]

Finishes(c) == calls[c].pc # "done" /\ calls'[c].pc = "done"

FirstBrokenRuleReported ==
    [][\A c \in CallIds : Finishes(c) => calls'[c].result = FirstBroken(calls'[c])]_vars

(* C21's case: a request for more than the offer's remaining quantity, in the name *)
(* of a buyer that does not exist, was refused for the quantity.                   *)
RefusedForFirstOfTwo ==
    \E c \in CallIds :
        /\ calls[c].pc = "done"
        /\ calls[c].result = "Requested kWh exceeds remaining"
        /\ ~Exists(users, calls[c].buyer_id)
        /\ Cardinality(Broken(calls[c])) >= 2

(* C22 as stated: fund_user with amount > 0 on an existing account raises that     *)
(* account's balance by exactly amount and returns the new balance, and changes no *)
(* other account, no offer and no trade; with amount <= 0 or a missing account it  *)
(* fails and changes nothing.                                                      *)
Funds == answer' # answer /\ answer'.op \in {"fund", "Amount must be positive", "User not found"}

EnergyConserved ==
    \A o \in 1..Len(offers) :
        offers[o].kwh_total = offers[o].kwh_remaining + SumKwh(trades, o)

(* C24: in every reachable state the balances of all accounts sum to the total     *)
(* amount funded minus the fees of all recorded trades: a settlement takes its fee *)
(* out of the accounts and credits it to none.                                     *)
RECURSIVE SumBalances(_)
SumBalances(rows) ==
    IF rows = <<>> THEN 0 ELSE Head(rows).balance_eur + SumBalances(Tail(rows))

RECURSIVE SumFees(_)
SumFees(rows) ==
    IF rows = <<>> THEN 0
    ELSE RoundDiv(Head(rows).total_eur * PLATFORM_FEE_RATE_PCT, 100) + SumFees(Tail(rows))

(* Every successful fund_user call of the model funds 3.00 EUR. *)
FundsCommitted == IF funding.pc = "commit" THEN funds - 1 ELSE funds

FundsAccounted ==
    SumBalances(users) = FundsCommitted * RoundDiv(300000, 10) - SumFees(trades)

(* C25: when a fund_user call and an accept_offer call that ran concurrently have  *)
(* both finished, every account holds its initial balance, plus the funded amount  *)
(* if it is the funded account, plus what the settlement debited or credited it.   *)
Settled(u) ==
    IF trades = <<>> THEN 0
    ELSE LET t == trades[1]
             fee == RoundDiv(t.total_eur * PLATFORM_FEE_RATE_PCT, 100)
         IN  (IF t.buyer_id = u THEN 0 - t.total_eur ELSE 0)
                + (IF offers[t.offer_id].seller_id = u THEN t.total_eur - fee ELSE 0)

FundAndSettlementBothKept ==
    (calls[1].pc = "done" /\ funds = 1 /\ funding.pc = "idle" /\ Len(trades) <= 1) =>
        \E funded \in UserIds :
            \A u \in 1..Len(users) :
                users[u].balance_eur
                    = RaceUsers[u].balance_eur
                        + (IF u = funded THEN RoundDiv(300000, 10) ELSE 0)
                        + Settled(u)

====
